---- MODULE Spec2Model ----
(***************************************************************************)
(* The log tree of tracing-forest (src/tree/mod.rs): Tree, Event, Span,    *)
(* the typed extraction Tree::event / Tree::span, the accessors, and the   *)
(* duration arithmetic of Span.  The producer that opens spans, records    *)
(* events and closes spans lives outside tree/mod.rs; it is modelled here  *)
(* only as far as the tree needs it.                                       *)
(***************************************************************************)
EXTENDS Integers, Sequences, FiniteSets

VARIABLES forest, stack, log, call

vars == <<forest, stack, log, call>>

(* ------------------------------ bounds -------------------------------- *)

MaxNodes == 3
MaxDepth == 2
MaxTime == 2
MaxDur == 2

(* ------------------------------ values -------------------------------- *)

Levels == {"TRACE", "DEBUG", "INFO", "WARN", "ERROR"}

SpanArgs(level, name) == [level |-> level, name |-> name]

SpanInputs == {SpanArgs("INFO", "work"), SpanArgs("ERROR", "outer")}

None == <<>>

Some(v) == <<v>>

Tag_from_level(level) ==
    CASE level = "TRACE" -> "trace"
      [] level = "DEBUG" -> "debug"
      [] level = "INFO" -> "info"
      [] level = "WARN" -> "warn"
      [] level = "ERROR" -> "error"

Fields2 == <<[key |-> "a", value |-> "1"], [key |-> "b", value |-> "2"]>>

EventArgs(level, message, tag, fields) ==
    [level |-> level, message |-> message, tag |-> tag, fields |-> fields]

EventInputs ==
    { EventArgs("INFO", Some("start"), None, <<>>),
      EventArgs("DEBUG", Some("done"), Some("request"), Fields2) }

AllEventInputs ==
    { EventArgs("TRACE", None, None, <<>>),
      EventArgs("DEBUG", Some("done"), None, <<>>),
      EventArgs("INFO", Some("start"), None, <<>>),
      EventArgs("WARN", None, None, Fields2),
      EventArgs("ERROR", Some("start"), None, Fields2),
      EventArgs("INFO", Some("start"), Some("request"), Fields2),
      EventArgs("ERROR", None, Some("request"), <<>>) }

Shared(level) == [level |-> level]

Ok(v) == [ok |-> TRUE, val |-> v]

Err(e) == [ok |-> FALSE, err |-> e]

Returned(d) == [panic |-> FALSE, val |-> d]

Panic(msg) == [panic |-> TRUE, msg |-> msg]

(* ------------------------------- Tree --------------------------------- *)

Tree_Event(e) == [kind |-> "Event", node |-> e]

Tree_Span(s) == [kind |-> "Span", node |-> s]

event_always_err(self) == Err("ExpectedEventError")

event(self) ==
    IF self.kind = "Event" THEN Ok(self.node) ELSE Err("ExpectedEventError")

span_always_err(self) == Err("ExpectedSpanError")

span_fresh(self) ==
    IF self.kind = "Event"
    THEN Err("ExpectedSpanError")
    ELSE Ok([self.node EXCEPT !.children = <<>>])

span(self) ==
    IF self.kind = "Event" THEN Err("ExpectedSpanError") ELSE Ok(self.node)

(* ------------------------------- Event -------------------------------- *)

Event_level(self) == self.shared.level

Event_message(self) == self.message

Event_tag(self) == self.tag

Event_fields(self) == self.fields

(* ------------------------------- Span --------------------------------- *)

Span_new_nonzero(shared, name) ==
    [shared |-> shared, name |-> name, total_duration |-> 1,
     inner_duration |-> 0, children |-> <<>>]

Span_new(shared, name) ==
    [shared |-> shared, name |-> name, total_duration |-> 0,
     inner_duration |-> 0, children |-> <<>>]

Span_level(self) == self.shared.level

Span_name(self) == self.name

Span_children_rev(self) ==
    [i \in 1..Len(self.children) |-> self.children[Len(self.children) + 1 - i]]

Span_children(self) == self.children

Span_total_duration(self) == self.total_duration

Span_inner_duration(self) == self.inner_duration

Duration_sub_saturating(a, b) ==
    IF b > a THEN Returned(0) ELSE Returned(a - b)

Duration_sub(a, b) ==
    IF b > a THEN Panic("overflow when subtracting durations") ELSE Returned(a - b)

Span_base_duration_swapped(self) == Duration_sub(self.inner_duration, self.total_duration)

Span_base_duration(self) == Duration_sub(self.total_duration, self.inner_duration)

(* ------------------------------ producer ------------------------------ *)

RECURSIVE Size(_)
Size(trees) ==
    IF trees = <<>>
    THEN 0
    ELSE 1 + (IF Head(trees).kind = "Span" THEN Size(Head(trees).node.children) ELSE 0)
           + Size(Tail(trees))

RECURSIVE OpenSize(_)
OpenSize(spans) ==
    IF spans = <<>> THEN 0 ELSE 1 + Size(Head(spans).children) + OpenSize(Tail(spans))

Nodes == Size(forest) + OpenSize(stack)

Panicked == call.op = "inspect" /\ call.span.ok /\ call.s.base_duration.panic

Top == stack[Len(stack)]

new_event_no_default(args) ==
    [shared |-> Shared(args.level), message |-> args.message,
     tag |-> IF args.tag = None THEN "info" ELSE args.tag[1],
     fields |-> args.fields]

new_event(args) ==
    [shared |-> Shared(args.level), message |-> args.message,
     tag |-> IF args.tag = None THEN Tag_from_level(args.level) ELSE args.tag[1],
     fields |-> args.fields]

push(children, tree) == Append(children, tree)

record_event(self, e) == [self EXCEPT !.children = push(@, Tree_Event(e))]

record_span(self, s) ==
    [self EXCEPT !.inner_duration = @ + s.total_duration,
                 !.children = push(@, Tree_Span(s))]

elapse_top_only(spans, d) == [spans EXCEPT ![Len(spans)].total_duration = @ + d]

elapse(spans, d) == [i \in DOMAIN spans |-> [spans[i] EXCEPT !.total_duration = @ + d]]

OpenSpan(args) ==
    /\ ~Panicked
    /\ Len(stack) < MaxDepth
    /\ Nodes < MaxNodes
    /\ stack' = Append(stack, Span_new(Shared(args.level), args.name))
    /\ log' = Append(log, <<>>)
    /\ call' = [op |-> "Span_new", args |-> args,
                ret |-> Span_new(Shared(args.level), args.name)]
    /\ UNCHANGED forest

RecordEvent(args) ==
    /\ ~Panicked
    /\ Nodes < MaxNodes
    /\ LET e == new_event(args) IN
        /\ IF stack = <<>>
           THEN /\ forest' = push(forest, Tree_Event(e))
                /\ UNCHANGED <<stack, log>>
           ELSE /\ stack' = [stack EXCEPT ![Len(stack)] = record_event(@, e)]
                /\ log' = [log EXCEPT ![Len(log)] = Append(@, Tree_Event(e))]
                /\ UNCHANGED forest
        /\ call' = [op |-> "record_event", args |-> args, ret |-> e]

Elapse(d) ==
    /\ ~Panicked
    /\ stack # <<>>
    /\ stack[1].total_duration + d <= MaxTime
    /\ stack' = elapse(stack, d)
    /\ call' = [op |-> "elapse", d |-> d]
    /\ UNCHANGED <<forest, log>>

CloseSpan ==
    /\ ~Panicked
    /\ stack # <<>>
    /\ LET s == Top
           n == Len(stack)
       IN /\ IF n = 1
             THEN /\ forest' = push(forest, Tree_Span(s))
                  /\ stack' = <<>>
                  /\ log' = <<>>
             ELSE /\ stack' = [SubSeq(stack, 1, n - 1) EXCEPT ![n - 1] = record_span(@, s)]
                  /\ log' = [SubSeq(log, 1, n - 1) EXCEPT ![n - 1] = Append(@, Tree_Span(s))]
                  /\ UNCHANGED forest
          /\ call' = [op |-> "close", span |-> s, appended |-> log[n]]

(* ------------------------------ consumer ------------------------------ *)

Absent == [absent |-> TRUE]

Observe(path, t) ==
    LET ev == event(t)
        sp == span(t)
    IN [op |-> "inspect", path |-> path, event |-> ev, span |-> sp,
        e |-> IF ev.ok
              THEN [level |-> Event_level(ev.val), message |-> Event_message(ev.val),
                    tag |-> Event_tag(ev.val), fields |-> Event_fields(ev.val)]
              ELSE Absent,
        s |-> IF sp.ok
              THEN [level |-> Span_level(sp.val), name |-> Span_name(sp.val),
                    children |-> Span_children(sp.val),
                    total_duration |-> Span_total_duration(sp.val),
                    inner_duration |-> Span_inner_duration(sp.val),
                    base_duration |-> Span_base_duration(sp.val)]
              ELSE Absent]

NodeIn(trees, path) ==
    IF Len(path) = 1
    THEN trees[path[1]]
    ELSE trees[path[1]].node.children[path[2]]

NodeAt(path) == NodeIn(forest, path)

Paths ==
    {<<i>> : i \in 1..Len(forest)} \cup
    UNION {{<<i, j>> : j \in 1..Len(forest[i].node.children)} :
            i \in {k \in 1..Len(forest) : forest[k].kind = "Span"}}

InspectTaking(path) ==
    /\ ~Panicked
    /\ path \in Paths
    /\ call' = Observe(path, NodeAt(path))
    /\ forest' = [forest EXCEPT ![path[1]] =
                    IF @.kind = "Span" THEN [@ EXCEPT !.node.children = <<>>]
                    ELSE [@ EXCEPT !.node.message = None]]
    /\ UNCHANGED <<stack, log>>

Inspect(path) ==
    /\ ~Panicked
    /\ path \in Paths
    /\ call' = Observe(path, NodeAt(path))
    /\ UNCHANGED <<forest, stack, log>>

(* --------------------------- specifications --------------------------- *)

Init ==
    /\ forest = <<>>
    /\ stack = <<>>
    /\ log = <<>>
    /\ call = [op |-> "init"]

Next ==
    \/ \E args \in SpanInputs : OpenSpan(args)
    \/ \E args \in EventInputs : RecordEvent(args)
    \/ \E d \in 1..MaxTime : Elapse(d)
    \/ CloseSpan
    \/ \E i \in 1..MaxNodes : Inspect(<<i>>)
    \/ \E i \in 1..MaxNodes, j \in 1..MaxNodes : Inspect(<<i, j>>)

Spec == Init /\ [][Next]_vars

AnySpan ==
    { [shared |-> Shared(level), name |-> name, total_duration |-> total,
       inner_duration |-> inner, children |-> children] :
        level \in Levels, name \in {"work", "outer"}, total \in 0..MaxDur, inner \in 0..MaxDur,
        children \in {<<>>, <<Tree_Event(new_event(EventArgs("INFO", Some("done"), None, <<>>)))>>} }

InitValues ==
    /\ forest \in {<<Tree_Span(s)>> : s \in AnySpan}
    /\ stack = <<>>
    /\ log = <<>>
    /\ call = [op |-> "init"]

NextValues == \E i \in 1..Len(forest) : Inspect(<<i>>)

SpecValues == InitValues /\ [][NextValues]_vars

NextEvents ==
    \/ \E args \in AllEventInputs : RecordEvent(args)
    \/ \E i \in 1..MaxNodes : Inspect(<<i>>)

SpecEvents == Init /\ [][NextEvents]_vars

(* ------------------------------- claims ------------------------------- *)

RECURSIVE Flatten(_)
Flatten(trees) ==
    IF trees = <<>>
    THEN <<>>
    ELSE <<Head(trees)>>
         \o (IF Head(trees).kind = "Span" THEN Flatten(Head(trees).node.children) ELSE <<>>)
         \o Flatten(Tail(trees))

RECURSIVE OpenChildren(_)
OpenChildren(spans) ==
    IF spans = <<>> THEN <<>> ELSE Flatten(Head(spans).children) \o OpenChildren(Tail(spans))

AllTrees == Flatten(forest) \o OpenChildren(stack)

RECURSIVE SpansOf(_)
SpansOf(trees) ==
    IF trees = <<>>
    THEN <<>>
    ELSE (IF Head(trees).kind = "Span"
          THEN <<Head(trees).node>> \o SpansOf(Head(trees).node.children)
          ELSE <<>>)
         \o SpansOf(Tail(trees))

RECURSIVE OpenSpans(_)
OpenSpans(spans) ==
    IF spans = <<>>
    THEN <<>>
    ELSE <<Head(spans)>> \o SpansOf(Head(spans).children) \o OpenSpans(Tail(spans))

AllSpans == SpansOf(forest) \o OpenSpans(stack)

EventView(e) ==
    [level |-> e.shared.level, message |-> e.message, tag |-> e.tag, fields |-> e.fields]

\* C1: event() on a Tree::Event returns Ok with that very event, whose level(),
\* message(), tag() and fields() are the values it was built with (message absent
\* when none was supplied); event() on a Tree::Span returns Err(ExpectedEventError).
C1_EventExtraction ==
    /\ call.op = "inspect" =>
        LET t == NodeAt(call.path) IN
        /\ t.kind = "Event" => call.event = Ok(t.node) /\ call.e = EventView(t.node)
        /\ t.kind = "Span" => call.event = Err("ExpectedEventError") /\ call.e = Absent
    /\ call.op = "record_event" =>
        LET r == event(Tree_Event(call.ret)) IN
        /\ r.ok
        /\ Event_level(r.val) = call.args.level
        /\ Event_message(r.val) = call.args.message
        /\ Event_fields(r.val) = call.args.fields
        /\ call.args.tag # None => Event_tag(r.val) = call.args.tag[1]

C1_Witness ==
    /\ call.op = "inspect"
    /\ NodeAt(call.path).kind = "Event"
    /\ call.event.ok
    /\ call.e.message = Some("done")
    /\ call.e.tag = "request"
    /\ call.e.fields = Fields2
    /\ \E i \in 1..Len(forest) : forest[i].kind = "Span"

\* C2: span() on a Tree::Span returns Ok with that very span (name, durations and
\* children); span() on a Tree::Event returns Err(ExpectedSpanError) as a value,
\* without a panic.
C2_SpanExtraction ==
    call.op = "inspect" =>
        LET t == NodeAt(call.path) IN
        /\ t.kind = "Span" =>
            /\ call.span = Ok(t.node)
            /\ call.s.name = t.node.name
            /\ call.s.children = t.node.children
            /\ call.s.total_duration = t.node.total_duration
            /\ call.s.inner_duration = t.node.inner_duration
        /\ t.kind = "Event" =>
            /\ call.span = Err("ExpectedSpanError")
            /\ call.s = Absent
            /\ ~Panicked

C2_Witness ==
    /\ Len(forest) = 2
    /\ forest[1].kind = "Event"
    /\ forest[1].node.message = Some("start")
    /\ forest[2].kind = "Span"
    /\ call.op = "inspect"
    /\ call.path = <<2>>
    /\ call.span.ok
    /\ call.s.name = "work"
    /\ Len(call.s.children) = 1
    /\ call.s.children[1].kind = "Event"
    /\ call.s.children[1].node.message = Some("done")

\* C3: for every span whose counters satisfy inner_duration <= total_duration,
\* base_duration() returns, and total_duration() = inner_duration() +
\* base_duration(), computed from the current values of the two counters.
C3_DurationIdentity ==
    LET all == AllSpans IN
    \A i \in 1..Len(all) :
        LET s == all[i]
            b == Span_base_duration(s)
        IN s.inner_duration <= s.total_duration =>
            /\ ~b.panic
            /\ Span_total_duration(s) = Span_inner_duration(s) + b.val

C3_Witness ==
    \E i \in 1..Len(AllSpans) :
        /\ AllSpans[i].total_duration = 2
        /\ AllSpans[i].inner_duration = 1
        /\ Len(AllSpans[i].children) = 1
        /\ Span_base_duration(AllSpans[i]) = Returned(1)

C5_UnderflowIsFatal ==
    call.op = "inspect" =>
        LET t == NodeAt(call.path) IN
        /\ (t.kind = "Span" /\ t.node.inner_duration > t.node.total_duration) =>
            /\ call.span = Ok(t.node)
            /\ call.s.base_duration = Panic("overflow when subtracting durations")
            /\ Panicked
        /\ ~call.event.ok => call.event.err = "ExpectedEventError"
        /\ ~call.span.ok => call.span.err = "ExpectedSpanError"

C5_Witness ==
    /\ call.op = "inspect"
    /\ NodeAt(call.path).node.inner_duration = 2
    /\ NodeAt(call.path).node.total_duration = 1
    /\ Panicked

\* C6: Span::new(shared, name) returns the canonical empty span: zero
\* total_duration and inner_duration, no children, level() and name() as supplied,
\* hence base_duration() = 0; it is the span the producer opens.
C6_NewIsCanonical ==
    call.op = "Span_new" =>
        /\ call.ret.total_duration = 0
        /\ call.ret.inner_duration = 0
        /\ call.ret.children = <<>>
        /\ Span_level(call.ret) = call.args.level
        /\ Span_name(call.ret) = call.args.name
        /\ Span_total_duration(call.ret) = 0
        /\ Span_inner_duration(call.ret) = 0
        /\ Span_base_duration(call.ret) = Returned(0)
        /\ Top = call.ret

C6_Witness ==
    /\ call.op = "Span_new"
    /\ call.args = SpanArgs("ERROR", "outer")
    /\ Len(stack) = 2
    /\ stack[1].total_duration > 0

\* C7: children() of a span returns exactly the appended nodes, in the order of
\* the appends: as many as there were appends, the i-th being the i-th appended.
C7_ChildrenInAppendOrder ==
    /\ \A i \in 1..Len(stack) :
        /\ Len(Span_children(stack[i])) = Len(log[i])
        /\ Span_children(stack[i]) = log[i]
    /\ call.op = "close" => Span_children(call.span) = call.appended

C7_Witness ==
    /\ call.op = "close"
    /\ Len(call.appended) = 2
    /\ call.appended[1] # call.appended[2]
    /\ Span_children(call.span)[1] = call.appended[1]

\* C8: a read (event(), span() and the accessors) leaves the forest and the open
\* spans unchanged, whether it returned Ok or Err, and reading the same node again
\* gives the same results.
C8_ReadsArePure ==
    [][call'.op = "inspect" =>
        /\ forest' = forest
        /\ stack' = stack
        /\ log' = log
        /\ Observe(call'.path, NodeIn(forest', call'.path)) = call']_vars

C8_Witness ==
    /\ call.op = "inspect"
    /\ call.path = <<1, 1>>
    /\ ~call.span.ok
    /\ call.event.ok
    /\ Len(forest) = 2

\* C9: tag() of every event is a present tag, and an event built with no tag
\* holds the default tag of its level, for each of the five levels.
C9_DefaultTag ==
    /\ call.op = "record_event" =>
        /\ Event_tag(call.ret) \in {Tag_from_level(l) : l \in Levels} \cup {"request"}
        /\ call.args.tag = None =>
            Event_tag(call.ret) = Tag_from_level(Event_level(call.ret))
    /\ call.op = "inspect" /\ call.event.ok =>
        call.e.tag \in {Tag_from_level(l) : l \in Levels} \cup {"request"}

C9_Witness ==
    /\ call.op = "inspect"
    /\ call.event.ok
    /\ call.e.level = "WARN"
    /\ call.e.tag = "warn"
    /\ Len(forest) = 3
    /\ \A i \in 1..3 : forest[i].node.tag = Tag_from_level(forest[i].node.shared.level)
    /\ forest[1].node.shared.level = "TRACE"
    /\ forest[2].node.shared.level = "ERROR"

\* C10: for every tree at any depth exactly one of event() and span() returns
\* Ok; event() fails only on a Span and span() fails only on an Event.
C10_ExactlyOneExtraction ==
    LET all == AllTrees IN
    \A i \in 1..Len(all) :
        LET t == all[i] IN
        /\ event(t).ok # span(t).ok
        /\ event(t).ok <=> t.kind = "Event"
        /\ span(t).ok <=> t.kind = "Span"

C10_Witness ==
    /\ Len(forest) = 1
    /\ forest[1].kind = "Span"
    /\ Len(forest[1].node.children) = 1
    /\ forest[1].node.children[1].kind = "Span"
    /\ Len(forest[1].node.children[1].node.children) = 1
    /\ event(forest[1].node.children[1].node.children[1]).ok

====
